---- MODULE Spec2Model ----
(***************************************************************************)
(* Model of Jotoba's kanji reading search (search/src/word/kanji.rs) and   *)
(* of the kun/on reading link generator (src/models/kanji/gen_readings.rs).*)
(* Strings are sequences of one-character strings; upper case characters   *)
(* stand for kanji, lower case ones for kana, "-" and "." are the markers  *)
(* the kanji readings carry.                                               *)
(***************************************************************************)
EXTENDS Integers, Sequences, FiniteSets, TLC

VARIABLES
    \* ---- by_reading: one search request
    pc,          \* position of the request inside by_reading
    form,        \* search.query.form: a kanji reading form, or None
    kanjiRow,    \* the kanji record stored for the literal, or None
    posFilter,   \* search.query.get_part_of_speech_tags(), as a modulus
    seq_ids,     \* local seq_ids of by_reading
    calls,       \* storage calls issued so far, with their results
    result,      \* what by_reading returned, or None
    \* ---- update_links: the link rebuild
    lpc,         \* position inside update_links
    tokenizer,   \* whether the build has the "tokenizer" feature
    db,          \* the stored tables: kanji and dict, rows in id order
    all_kanji,   \* local all_kanji: kanji ids in the order the select gave
    dict_cache,  \* local dict_cache: sequence id -> dict row
    kpos,        \* kanji with kun readings already handled
    all_kuns,    \* local all_kuns: (kanji id, sequence ids) pairs
    chunk,       \* number of the chunk being written or looked up
    pending,     \* items of the chunk whose future has not completed
    onFound,     \* item -> on links found and not yet written
    lresult,     \* what update_links returned, or None
    failures,    \* storage failures injected so far
    failedStep,  \* the step of this run that met a storage failure
    written,     \* the link writes done so far, each with its run
    run,         \* number of the current rebuild
    firstRun,    \* the links and the result of the first rebuild
    \* ---- load_word_kanji_info: one call
    ipc,         \* position inside load_word_kanji_info
    words,       \* argument words
    query,       \* search.query.query, as code points
    kanji_words, \* local kanji_words
    retrieved,   \* local retrieved_kanji
    iresult,     \* what load_word_kanji_info returned, or None
    \* ---- japanese: the string predicates and all_words_with_ct
    tpc,         \* position inside all_words_with_ct
    inp,         \* argument inp, as code points
    ct,          \* argument ct
    all_words,   \* local all
    curr,        \* local curr
    iter,        \* characters of inp the iterator has consumed
    flags,       \* the string predicates of inp, or None
    \* ---- matches_kanji and order_kuns: one call
    m_in,        \* arguments of matches_kanji
    m_out,       \* the mode it selected and what it returned, or None
    o_in,        \* arguments of order_kuns
    o_out        \* the Ordering it returned (field order), or None

svars == <<pc, form, kanjiRow, posFilter, seq_ids, calls, result>>
lvars == <<lpc, tokenizer, db, all_kanji, dict_cache, kpos, all_kuns, chunk, pending,
          onFound, lresult, failures, failedStep, written, run, firstRun>>
ivars == <<ipc, words, query, kanji_words, retrieved, iresult>>
tvars == <<tpc, inp, ct, all_words, curr, iter, flags>>
mvars == <<m_in, m_out, o_in, o_out>>
vars == <<svars, lvars, ivars, tvars, mvars>>

None == [none |-> TRUE]

\* ------------------------------------------------------------------ bounds

\* most sequence ids one find_readings lookup returns
MaxIds == 12

\* dictionary entries that exemplify the first kanji of the large table
BigN == 9

\* storage failures injected in one behaviour
MaxFailures == 1

\* rebuilds run in succession
MaxRuns == 2

\* longest string given to the string predicates and to all_words_with_ct
MaxLen == 3

\* most words given to load_word_kanji_info
MaxWords == 12

\* ---------------------------------------------------------------- strings

Min(a, b) == IF a <= b THEN a ELSE b

\* Iterator::take
take(s, n) == SubSeq(s, 1, Min(n, Len(s)))

starts_with(s, c) == Len(s) > 0 /\ s[1] = c

ends_with(s, c) == Len(s) > 0 /\ s[Len(s)] = c

\* s without every occurrence of the character c: str::replace(c, "")
RECURSIVE Strip(_, _)
Strip(s, c) ==
    IF s = <<>> THEN <<>>
    ELSE IF s[1] = c THEN Strip(Tail(s), c)
    ELSE <<s[1]>> \o Strip(Tail(s), c)

\* the part of s before the first character c: s.split(c).next().unwrap()
RECURSIVE BeforeFirst(_, _)
BeforeFirst(s, c) ==
    IF s = <<>> \/ s[1] = c THEN <<>>
    ELSE <<s[1]>> \o BeforeFirst(Tail(s), c)

literal_reading(kun) == BeforeFirst(Strip(kun, "-"), ".")

\* ------------------------------------------------------- japanese/mod.rs
\* Characters are code points; a string is a sequence of code points.

\* japanese/mod.rs:62-64
char_is_katakana(c) == c >= 12448 /\ c <= 12543

\* japanese/mod.rs:66-68
char_is_hiragana(c) == c >= 12352 /\ c <= 12447

\* japanese/mod.rs:70-72
char_is_kana(c) == char_is_hiragana(c) \/ char_is_katakana(c)

\* japanese/mod.rs:78-84
char_is_roman_letter(c) ==
    \/ c >= 65281 /\ c <= 65370
    \/ c >= 8192 /\ c <= 8303
    \/ c >= 131072 /\ c <= 173791
    \/ c = 8208
    \/ c = 8722

\* japanese/mod.rs:86-93
char_is_kanji(c) ==
    \/ c >= 13312 /\ c <= 19903
    \/ c >= 19968 /\ c <= 40959
    \/ c >= 63744 /\ c <= 64255
    \/ c >= 65296 /\ c <= 65305
    \/ c >= 131072 /\ c <= 173791
    \/ c = 171658

\* japanese/mod.rs:95-103
char_is_symbol(c) ==
    \/ c >= 12288 /\ c <= 12351
    \/ c >= 880 /\ c <= 1023
    \/ c >= 9632 /\ c <= 9727
    \/ c >= 65280 /\ c <= 65519
    \/ c = 45
    \/ c = 12293
    \/ c = 215

\* japanese/mod.rs:121-129
char_get_text_type(c) ==
    IF char_is_kana(c) THEN "Kana"
    ELSE IF char_is_kanji(c) \/ char_is_roman_letter(c) THEN "Kanji"
    ELSE "Other"

\* japanese/mod.rs:117-119
char_is_of_type(c, t) == char_get_text_type(c) = t

\* japanese/mod.rs:131-133
char_is_japanese(c) ==
    char_is_kana(c) \/ char_is_kanji(c) \/ char_is_symbol(c) \/ char_is_roman_letter(c)

\* japanese/mod.rs:147-149
char_is_small_hiragana(c) == c = 12419 \/ c = 12421 \/ c = 12423

\* japanese/mod.rs:151-153
char_is_small_katakana(c) == c = 12515 \/ c = 12517 \/ c = 12519

\* japanese/mod.rs:155-157
char_is_small_kana(c) == char_is_small_katakana(c) \/ char_is_small_hiragana(c)

\* japanese/mod.rs:175-177
str_is_hiragana(s) == ~\E i \in 1..Len(s) : ~char_is_hiragana(s[i])

\* japanese/mod.rs:179-181
str_is_katakana(s) == ~\E i \in 1..Len(s) : ~char_is_katakana(s[i])

\* japanese/mod.rs:183-185
str_is_roman_letter(s) == ~\E i \in 1..Len(s) : ~char_is_roman_letter(s[i])

\* japanese/mod.rs:187-189
str_has_kana(s) == \E i \in 1..Len(s) : char_is_kana(s[i])

\* japanese/mod.rs:191-193
str_has_symbol(s) == \E i \in 1..Len(s) : char_is_symbol(s[i])

\* japanese/mod.rs:195-197
str_is_kana(s) == ~\E i \in 1..Len(s) : ~char_is_kana(s[i])

\* japanese/mod.rs:199-201
str_is_kanji(s) == ~\E i \in 1..Len(s) : ~char_is_kanji(s[i])

\* japanese/mod.rs:203-205
str_has_kanji(s) == \E i \in 1..Len(s) : char_is_kanji(s[i])

\* japanese/mod.rs:227-229
str_is_symbol(s) == ~\E i \in 1..Len(s) : ~char_is_symbol(s[i])

\* japanese/mod.rs:207-213: the predicates are those of the one character
\* string c.encode_utf8(&mut buf)
str_is_japanese(s) ==
    ~\E i \in 1..Len(s) :
        /\ ~str_is_kana(<<s[i]>>)
        /\ ~str_is_kanji(<<s[i]>>)
        /\ ~str_is_symbol(<<s[i]>>)
        /\ ~str_is_roman_letter(<<s[i]>>)

\* japanese/mod.rs:215-221
str_has_japanese(s) ==
    \E i \in 1..Len(s) :
        \/ str_is_kana(<<s[i]>>)
        \/ str_is_kanji(<<s[i]>>)
        \/ str_is_symbol(<<s[i]>>)
        \/ str_is_roman_letter(<<s[i]>>)

\* japanese/mod.rs:223-225
kanji_count(s) == Cardinality({ i \in 1..Len(s) : char_is_kanji(s[i]) })

\* japanese/mod.rs:235-237
str_is_small_katakana(s) == ~\E i \in 1..Len(s) : ~char_is_small_katakana(s[i])

\* japanese/mod.rs:239-241
str_is_small_hiragana(s) == ~\E i \in 1..Len(s) : ~char_is_small_hiragana(s[i])

\* japanese/mod.rs:243-245
str_is_small_kana(s) == str_is_small_katakana(s) \/ str_is_small_hiragana(s)

\* the string predicates of s, by name
str_flags(s) ==
    [is_kana |-> str_is_kana(s), is_kanji |-> str_is_kanji(s),
     is_hiragana |-> str_is_hiragana(s), is_katakana |-> str_is_katakana(s),
     is_symbol |-> str_is_symbol(s), is_roman_letter |-> str_is_roman_letter(s),
     is_small_kana |-> str_is_small_kana(s), is_japanese |-> str_is_japanese(s),
     has_kana |-> str_has_kana(s), has_kanji |-> str_has_kanji(s),
     has_symbol |-> str_has_symbol(s), has_japanese |-> str_has_japanese(s)]

\* the characters the strings are made of: hiragana a, small hiragana ya,
\* small katakana ya, the kanji for day, full-width A, ASCII a and the
\* iteration mark
Alphabet == {12354, 12419, 12515, 26085, 65313, 97, 12293}

RECURSIVE StringsUpTo(_)
StringsUpTo(n) ==
    IF n = 0 THEN {<<>>}
    ELSE StringsUpTo(n - 1) \cup
         { Append(s, c) : s \in { t \in StringsUpTo(n - 1) : Len(t) = n - 1 }, c \in Alphabet }

CharTypes == {"Kana", "Kanji", "Other"}

\* a take_while that also consumes the character that ends the skipping
RECURSIVE take_while_ref_M(_, _, _)
take_while_ref_M(s, n, t) ==
    IF n >= Len(s) THEN Len(s)
    ELSE IF char_is_of_type(s[n + 1], t) THEN n + 1
    ELSE take_while_ref_M(s, n + 1, t)

\* japanese/mod.rs:269: iter.take_while_ref(|i| !i.is_of_type(ct)).count()
\* with n characters consumed: the iterator stops before the next character
\* of type t, which stays available
RECURSIVE take_while_ref(_, _, _)
take_while_ref(s, n, t) ==
    IF n >= Len(s) THEN Len(s)
    ELSE IF char_is_of_type(s[n + 1], t) THEN n
    ELSE take_while_ref(s, n + 1, t)

\* japanese/mod.rs:265-267 and 272-274
push_curr(list, word) == IF word # <<>> THEN Append(list, word) ELSE list

\* the string predicates are evaluated on inp
classify ==
    /\ tpc = "Start"
    /\ flags' = str_flags(inp)
    /\ tpc' = "Loop"
    /\ UNCHANGED <<inp, ct, all_words, curr, iter, svars, lvars, ivars, mvars>>

\* japanese/mod.rs:260-263: the next character is of type ct
push_char ==
    /\ tpc = "Loop"
    /\ iter < Len(inp)
    /\ char_is_of_type(inp[iter + 1], ct)
    /\ curr' = Append(curr, inp[iter + 1])
    /\ iter' = iter + 1
    /\ UNCHANGED <<tpc, inp, ct, all_words, flags, svars, lvars, ivars, mvars>>

\* japanese/mod.rs:264-270: the next character is not of type ct
end_word ==
    /\ tpc = "Loop"
    /\ iter < Len(inp)
    /\ ~char_is_of_type(inp[iter + 1], ct)
    /\ all_words' = push_curr(all_words, curr)
    /\ curr' = <<>>
    /\ iter' = take_while_ref(inp, iter + 1, ct)
    /\ UNCHANGED <<tpc, inp, ct, flags, svars, lvars, ivars, mvars>>

\* japanese/mod.rs:272-275: the iterator is exhausted
all_words_return ==
    /\ tpc = "Loop"
    /\ iter = Len(inp)
    /\ all_words' = push_curr(all_words, curr)
    /\ tpc' = "Done"
    /\ UNCHANGED <<inp, ct, curr, iter, flags, svars, lvars, ivars, mvars>>

InitTextIdle ==
    /\ tpc = "Idle"
    /\ inp = <<>>
    /\ ct = "Other"
    /\ all_words = <<>>
    /\ curr = <<>>
    /\ iter = 0
    /\ flags = None

\* --------------------------------------------------- by_reading: the data

\* the readings a request may ask for
QueryReadings == { <<"-", "b", "e">>, <<"t", "a">>, <<"s", "o">>, <<"x">> }

\* the kanji records the store may hold for the literal
KanjiRows ==
    { [literal |-> "K", kunyomi |-> <<<<"-", "b", "e">>, <<"t", "a">>>>,
       onyomi |-> <<<<"s", "o">>>>],
      [literal |-> "K", kunyomi |-> <<<<"t", "a">>>>,
       onyomi |-> <<<<"t", "a">>, <<"s", "o">>>>] }

InList(list, x) == \E i \in 1..Len(list) : list[i] = x

has_reading(k, reading) == InList(k.kunyomi, reading) \/ InList(k.onyomi, reading)

get_reading_type(k, reading) ==
    IF InList(k.kunyomi, reading) /\ ~InList(k.onyomi, reading) THEN "Kunyomi"
    ELSE IF InList(k.onyomi, reading) /\ ~InList(k.kunyomi, reading) THEN "Onyomi"
    ELSE "none"

\* what find_readings can return: sequence ids in one of two row orders
Ascending(n) == [i \in 1..n |-> i]

Descending(n) == [i \in 1..n |-> MaxIds + 1 - i]

IdLists == { Ascending(n) : n \in 0..MaxIds } \cup { Descending(n) : n \in 0..MaxIds }

\* the words load_words_by_seq returns for ids: one per sequence id that
\* passes the part of speech filter m (0: no filter)
RECURSIVE WordsOf(_, _)
WordsOf(ids, m) ==
    IF ids = <<>> THEN <<>>
    ELSE IF m > 0 /\ ids[1] % m = 0 THEN WordsOf(Tail(ids), m)
    ELSE <<[sequence |-> ids[1]]>> \o WordsOf(Tail(ids), m)

\* the injected comparator order::kanji_reading_search, as a score
Score(word) == (word.sequence * 5) % 7

\* a before b under the injected comparator
RanksBefore(a, b) == Score(a) > Score(b)

\* slice::sort_by on a slice of at most 20 elements: insertion sort from the
\* tail; before[<<a, b>>] says the comparator gives Ordering::Less for (a, b)
RECURSIVE InsertHead(_, _, _)
InsertHead(x, t, before) ==
    IF t = <<>> THEN <<x>>
    ELSE IF before[<<t[1], x>>] THEN <<t[1]>> \o InsertHead(x, Tail(t), before)
    ELSE <<x>> \o t

RECURSIVE SortBy(_, _)
SortBy(s, before) ==
    IF Len(s) <= 1 THEN s
    ELSE InsertHead(s[1], SortBy(Tail(s), before), before)

Elems(s) == { s[i] : i \in 1..Len(s) }

\* the injected comparator over the words of w
RankOrder(w) == [p \in Elems(w) \X Elems(w) |-> RanksBefore(p[1], p[2])]

\* Vec::truncate
truncate(s, n) == SubSeq(s, 1, Min(n, Len(s)))

\* what do_word_search can return for the rewritten query
WordSearchResults ==
    { [words |-> <<>>, count |-> 0, rest |-> "word_search"],
      [words |-> <<[sequence |-> 1]>>, count |-> 1, rest |-> "word_search"] }

Ok(v) == [ok |-> TRUE, val |-> v]

Err(e) == [ok |-> FALSE, err |-> e]

\* --------------------------------------------- by_reading: the decisions

\* kanji.rs:21-25: the request carries a kanji reading form
as_kanji_reading_M(f) == Ok(IF f = None THEN [literal |-> "K", reading |-> <<>>] ELSE f)

as_kanji_reading(f) == IF f = None THEN Err("Undefined") ELSE Ok(f)

\* kanji.rs:30: the kanji declares the reading and its type is known
ReadingDeclared_M(k, reading) == get_reading_type(k, reading) # "none" \/ ~has_reading(k, reading)

ReadingDeclared(k, reading) ==
    ~(~has_reading(k, reading) \/ get_reading_type(k, reading) = "none")

\* kanji.rs:34-38
NarrowMode(reading) ==
    IF starts_with(reading, "-") THEN "LeftVariable" ELSE "RightVariable"

\* kanji.rs:46: the first lookup did not return enough
NeedsSecondSearch_M(ids) == Len(ids) < 2

NeedsSecondSearch(ids) == Len(ids) <= 2

\* kanji.rs:47: seq_ids after the second lookup returned wide
AfterSecondSearch_M(narrow, wide) == IF wide = <<>> THEN narrow ELSE wide

AfterSecondSearch(narrow, wide) == wide

\* kanji.rs:79-88: the result built from the loaded words
ResultData_M(w) ==
    LET sorted == truncate(SortBy(w, RankOrder(w)), 10)
    IN  [words |-> sorted, count |-> Len(sorted), rest |-> "default"]

ResultData(w) ==
    LET sorted == SortBy(w, RankOrder(w))
        count == Len(sorted)
    IN  [words |-> truncate(sorted, 10), count |-> count, rest |-> "default"]

\* ------------------------------------------------ by_reading: the actions

Call(fn, args, ret) == [fn |-> fn, args |-> args, ret |-> ret]

Return(r) ==
    /\ pc' = "Done"
    /\ result' = r

\* kanji.rs:21-25
Start ==
    /\ pc = "Start"
    /\ IF as_kanji_reading(form).ok
         THEN pc' = "PrimaryLookup" /\ UNCHANGED result
         ELSE Return(as_kanji_reading(form))
    /\ UNCHANGED <<form, kanjiRow, posFilter, seq_ids, calls, lvars, ivars, tvars, mvars>>

\* kanji.rs:27-32
PrimaryLookup ==
    /\ pc = "PrimaryLookup"
    /\ LET reading == as_kanji_reading(form).val
       IN \E ret \in (IF kanjiRow = None THEN {Err("DbError(NotFound)")} ELSE {Ok(kanjiRow)})
                       \cup {Err("DbError")} :
            /\ calls' = Append(calls, Call("find_by_literal", reading.literal, ret))
            /\ IF ~ret.ok THEN Return(ret)
               ELSE IF ~ReadingDeclared(ret.val, reading.reading)
                 THEN pc' = "AlternativeSearch" /\ UNCHANGED result
               ELSE pc' = "NarrowSearch" /\ UNCHANGED result
    /\ UNCHANGED <<form, kanjiRow, posFilter, seq_ids, lvars, ivars, tvars, mvars>>

\* kanji.rs:34-46 and 60
NarrowSearch ==
    /\ pc = "NarrowSearch"
    /\ LET reading == as_kanji_reading(form).val
           args == [reading |-> reading.reading,
                    type |-> get_reading_type(kanjiRow, reading.reading),
                    mode |-> NarrowMode(reading.reading), first |-> TRUE]
       IN \E ret \in {Ok(ids) : ids \in IdLists} \cup {Err("DbError")} :
            /\ calls' = Append(calls, Call("find_readings", args, ret))
            /\ IF ~ret.ok THEN Return(ret) /\ UNCHANGED seq_ids
               ELSE /\ seq_ids' = ret.val
                    /\ UNCHANGED result
                    /\ pc' = IF NeedsSecondSearch(ret.val) THEN "WideSearch"
                             ELSE IF ret.val = <<>> THEN "AlternativeSearch"
                             ELSE "LoadAndRank"
    /\ UNCHANGED <<form, kanjiRow, posFilter, lvars, ivars, tvars, mvars>>

\* kanji.rs:47-62
WideSearch ==
    /\ pc = "WideSearch"
    /\ LET reading == as_kanji_reading(form).val
           args == [reading |-> reading.reading,
                    type |-> get_reading_type(kanjiRow, reading.reading),
                    mode |-> "Variable", first |-> FALSE]
       IN \E ret \in {Ok(ids) : ids \in IdLists} \cup {Err("DbError")} :
            /\ calls' = Append(calls, Call("find_readings", args, ret))
            /\ IF ~ret.ok THEN Return(ret) /\ UNCHANGED seq_ids
               ELSE /\ seq_ids' = AfterSecondSearch(seq_ids, ret.val)
                    /\ UNCHANGED result
                    /\ pc' = IF seq_ids' = <<>> THEN "AlternativeSearch"
                             ELSE "LoadAndRank"
    /\ UNCHANGED <<form, kanjiRow, posFilter, lvars, ivars, tvars, mvars>>

\* kanji.rs:64-88
LoadAndRank ==
    /\ pc = "LoadAndRank"
    /\ \E ret \in {Ok(WordsOf(seq_ids, posFilter)), Err("DbError")} :
         /\ calls' = Append(calls, Call("load_words_by_seq", seq_ids, ret))
         /\ IF ~ret.ok THEN Return(ret)
            ELSE Return(Ok(ResultData(ret.val)))
    /\ UNCHANGED <<form, kanjiRow, posFilter, seq_ids, lvars, ivars, tvars, mvars>>

\* kanji.rs:92-106
alternative_reading_search ==
    /\ pc = "AlternativeSearch"
    /\ LET reading == as_kanji_reading(form).val
       IN \E ret \in {Ok(r) : r \in WordSearchResults} \cup {Err("DbError")} :
            /\ calls' = Append(calls,
                   Call("do_word_search", literal_reading(reading.reading), ret))
            /\ Return(ret)
    /\ UNCHANGED <<form, kanjiRow, posFilter, seq_ids, lvars, ivars, tvars, mvars>>

\* ------------------------------------------- gen_readings: pure functions

\* str::replace(pat, rep) for a non-empty pattern
RECURSIVE ReplaceAll(_, _, _)
ReplaceAll(s, pat, rep) ==
    IF Len(s) < Len(pat) \/ pat = <<>> THEN s
    ELSE IF SubSeq(s, 1, Len(pat)) = pat
      THEN rep \o ReplaceAll(SubSeq(s, Len(pat) + 1, Len(s)), pat, rep)
    ELSE <<s[1]>> \o ReplaceAll(Tail(s), pat, rep)

contains(s, c) == \E i \in 1..Len(s) : s[i] = c

IsPrefix(p, s) == Len(p) <= Len(s) /\ SubSeq(s, 1, Len(p)) = p

IsSuffix(p, s) == Len(p) <= Len(s) /\ SubSeq(s, Len(s) - Len(p) + 1, Len(s)) = p

IsInfix(p, s) == \E i \in 0..(Len(s) - Len(p)) : SubSeq(s, i + 1, i + Len(p)) = p

\* SearchMode::str_eq(a, b, false): b is the text that may float inside a
str_eq(mode, a, b) ==
    CASE mode = "Exact" -> a = b
      [] mode = "Variable" -> IsInfix(b, a)
      [] mode = "LeftVariable" -> IsSuffix(b, a)
      [] mode = "RightVariable" -> IsPrefix(b, a)

\* super::format_reading: the reading without its markers
format_reading(kun) == Strip(Strip(kun, "-"), ".")

\* gen_readings.rs:269-271
len(kun) == Len(format_reading(kun))

\* gen_readings.rs:298-304
match_mode(literal, kun, kanji_reading) ==
    IF starts_with(kun, "-") THEN "RightVariable"
    ELSE IF ends_with(kun, "-") \/ starts_with(kanji_reading, literal) THEN "LeftVariable"
    ELSE "Exact"

\* gen_readings.rs:306-315
kanji_out(literal, kun) ==
    LET stripped == Strip(kun, "-")
        kun_left == BeforeFirst(kun, ".")
        out == IF contains(kun, ".")
               THEN ReplaceAll(stripped, Append(kun_left, "."), <<literal>>)
               ELSE <<literal>>
    IN  ReplaceAll(out, <<literal>>, literal_reading(kun))

\* gen_readings.rs:297-317
matches_kanji(literal, kun, kana_reading, kanji_reading) ==
    str_eq(match_mode(literal, kun, kanji_reading), kana_reading, kanji_out(literal, kun))

\* utils::invert_ordering
invert_ordering(o) ==
    CASE o = "Less" -> "Greater"
      [] o = "Greater" -> "Less"
      [] OTHER -> "Equal"

cmp(a, b) == IF a < b THEN "Less" ELSE IF a > b THEN "Greater" ELSE "Equal"

\* position of the first occurrence of x in list (0: none)
RECURSIVE IndexOf(_, _)
IndexOf(list, x) ==
    IF list = <<>> THEN 0
    ELSE IF list[1] = x THEN 1
    ELSE IF IndexOf(Tail(list), x) = 0 THEN 0
    ELSE 1 + IndexOf(Tail(list), x)

\* utils::get_item_order: the order of a and b in list, none if undecided
get_item_order(list, a, b) ==
    IF IndexOf(list, a) = 0 \/ IndexOf(list, b) = 0 \/ a = b THEN "none"
    ELSE cmp(IndexOf(list, a), IndexOf(list, b))

\* JA_NL_PARSER.parse(reading).len(): morphemes the tokenizer finds
parse_len(reading) == Len(reading) - 1

\* gen_readings.rs:232-241: the tokenizer criterion, none if undecided
by_tokens(a, b) ==
    LET a_parsed == parse_len(a.reading)
        b_parsed == parse_len(b.reading)
    IN  IF a_parsed = 1 /\ b_parsed > 0 THEN "Less"
        ELSE IF a_parsed > 1 /\ b_parsed = 0 THEN "Greater"
        ELSE "none"

\* gen_readings.rs:243-266
by_prio_and_jlpt_M(a, b) ==
    LET a_prio == Len(a.priorities)
        b_prio == Len(b.priorities)
    IN  IF a_prio > 0 /\ b_prio = 0 THEN "Less"
        ELSE IF b_prio > 0 /\ a_prio = 0 THEN "Greater"
        ELSE IF a.jlpt_lvl # <<>> /\ b.jlpt_lvl = <<>> THEN "Less"
        ELSE IF a.jlpt_lvl = <<>> /\ b.jlpt_lvl # <<>> THEN "Greater"
        ELSE IF a.jlpt_lvl # <<>> /\ b.jlpt_lvl # <<>>
          THEN cmp(a.jlpt_lvl[1], b.jlpt_lvl[1])
        ELSE "Equal"

by_prio_and_jlpt(a, b) ==
    LET a_prio == Len(a.priorities)
        b_prio == Len(b.priorities)
    IN  IF a_prio > 0 /\ b_prio = 0 THEN "Less"
        ELSE IF b_prio > 0 /\ a_prio = 0 THEN "Greater"
        ELSE IF a.jlpt_lvl # <<>> /\ b.jlpt_lvl = <<>> THEN "Less"
        ELSE IF a.jlpt_lvl = <<>> /\ b.jlpt_lvl # <<>> THEN "Greater"
        ELSE IF a.jlpt_lvl # <<>> /\ b.jlpt_lvl # <<>>
          THEN invert_ordering(cmp(a.jlpt_lvl[1], b.jlpt_lvl[1]))
        ELSE "Equal"

\* gen_readings.rs:218-267; tok: the build has the tokenizer feature
order_kuns_M(a, b, clean_kuns, tok) ==
    LET a_kunr == InList(clean_kuns, a.reading)
        b_kunr == InList(clean_kuns, b.reading)
        first == IF a_kunr /\ b_kunr THEN get_item_order(clean_kuns, a.reading, b.reading)
                 ELSE IF a_kunr /\ ~b_kunr THEN "Less"
                 ELSE IF ~a_kunr /\ b_kunr THEN "Greater"
                 ELSE "none"
    IN  IF tok /\ by_tokens(a, b) # "none" THEN by_tokens(a, b)
        ELSE IF by_prio_and_jlpt(a, b) # "Equal" THEN by_prio_and_jlpt(a, b)
        ELSE IF first # "none" THEN first
        ELSE "Equal"

order_kuns(a, b, clean_kuns, tok) ==
    LET a_kunr == InList(clean_kuns, a.reading)
        b_kunr == InList(clean_kuns, b.reading)
        first == IF a_kunr /\ b_kunr THEN get_item_order(clean_kuns, a.reading, b.reading)
                 ELSE IF a_kunr /\ ~b_kunr THEN "Less"
                 ELSE IF ~a_kunr /\ b_kunr THEN "Greater"
                 ELSE "none"
    IN  IF first # "none" THEN first
        ELSE IF tok /\ by_tokens(a, b) # "none" THEN by_tokens(a, b)
        ELSE by_prio_and_jlpt(a, b)

\* the comparator over the rows of kuns, as slice::sort_by uses it
KunOrder(kuns, clean_kuns, tok) ==
    [p \in Elems(kuns) \X Elems(kuns) |-> order_kuns(p[1], p[2], clean_kuns, tok) = "Less"]

\* gen_readings.rs:209-215: the kept candidates
clean_up_M(kuns, kun, tok) ==
    LET clean_kuns == [i \in 1..Len(kun) |-> literal_reading(kun[i])]
    IN  IF Len(kuns) > 10 THEN SortBy(kuns, KunOrder(kuns, clean_kuns, tok)) ELSE kuns

clean_up(kuns, kun, tok) ==
    LET clean_kuns == [i \in 1..Len(kun) |-> literal_reading(kun[i])]
    IN  IF Len(kuns) > 10
        THEN truncate(SortBy(kuns, KunOrder(kuns, clean_kuns, tok)), 10)
        ELSE kuns

\* ------------------------------- gen_readings: one call of the functions

\* the arguments of one matches_kanji call
MatchInputs ==
    [literal : {"A"},
     kun : { <<"-", "k", "o">>, <<"k", "o", "-">>, <<"s", "o">>, <<"t", "a", ".", "b", "e">>,
             <<"-", "t", "a", ".", "b", "e">> },
     kana_reading : { <<"k", "o">>, <<"x", "k", "o">>, <<"k", "o", "x">>, <<"s", "o">>,
                      <<"t", "a", "b", "e">>, <<"o", "t", "a", "b", "e">> },
     kanji_reading : { <<"A", "b">>, <<"x", "A">>, <<"A">> }]

\* gen_readings.rs:297-317 called once
matches_kanji_call ==
    /\ m_in # None
    /\ m_out = None
    /\ m_out' = [mode |-> match_mode(m_in.literal, m_in.kun, m_in.kanji_reading),
                 matched |-> matches_kanji(m_in.literal, m_in.kun, m_in.kana_reading,
                                           m_in.kanji_reading)]
    /\ UNCHANGED <<m_in, o_in, o_out, svars, lvars, ivars, tvars>>

\* the candidates: kanji-form rows with and without a declared reading, a
\* priority marker and a proficiency level
Candidates ==
    { [sequence |-> 1, reading |-> reading, kanji |-> TRUE,
       priorities |-> prio, jlpt_lvl |-> jlpt] :
        reading \in { <<"A">>, <<"A", "b">>, <<"A", "b", "e">>, <<"s", "o">>, <<"t", "a">> },
        prio \in { <<>>, <<"news1">> },
        jlpt \in { <<>>, <<2>>, <<5>> } }

\* the arguments of one order_kuns call, with the kun readings of the kanji
\* and whether the build has the tokenizer
OrderInputs ==
    [a : Candidates, b : Candidates,
     kun : { << <<"s", "o">>, <<"t", "a", ".", "b", "e">>, <<"-", "k", "o">> >> },
     tok : BOOLEAN]

\* gen_readings.rs:209
clean_kuns_of(kun) == [i \in 1..Len(kun) |-> literal_reading(kun[i])]

\* gen_readings.rs:218-267 called once
order_kuns_call ==
    /\ o_in # None
    /\ o_out = None
    /\ o_out' = [order |-> order_kuns(o_in.a, o_in.b, clean_kuns_of(o_in.kun), o_in.tok)]
    /\ UNCHANGED <<o_in, m_in, m_out, svars, lvars, ivars, tvars>>

InitCallsIdle ==
    /\ m_in = None
    /\ m_out = None
    /\ o_in = None
    /\ o_out = None

\* ---------------------------------------- gen_readings: find_kun_readings

Sequences(rows) == { rows[i].sequence : i \in 1..Len(rows) }

\* the last row of rows (a non-empty list) with sequence sq
LastOf(rows, sq) ==
    rows[CHOOSE i \in 1..Len(rows) :
            /\ rows[i].sequence = sq
            /\ \A j \in (i + 1)..Len(rows) : rows[j].sequence # sq]

\* gen_readings.rs:176-179: cache.insert(d.sequence, d.clone()) for every row
insert_all(cache, dicts) ==
    [sq \in DOMAIN cache \cup Sequences(dicts) |->
        IF sq \in Sequences(dicts) THEN LastOf(dicts, sq) ELSE cache[sq]]

\* Itertools::group_by(|i| i.sequence): runs of consecutive rows of one sequence
RECURSIVE group_by(_)
group_by(rows) ==
    IF rows = <<>> THEN <<>>
    ELSE LET rest == group_by(Tail(rows))
         IN  IF rest # <<>> /\ rest[1][1].sequence = rows[1].sequence
             THEN <<<<rows[1]>> \o rest[1]>> \o Tail(rest)
             ELSE <<<<rows[1]>>>> \o rest

\* gen_readings.rs:199-206: some kun reading matches the entry
any_kun_matches_M(literal, kun, dict_kana, dict_kanji) ==
    \E i \in 1..Len(kun) : len(kun[i]) <= Len(dict_kana.reading)

any_kun_matches(literal, kun, dict_kana, dict_kanji) ==
    \E i \in 1..Len(kun) :
        /\ matches_kanji(literal, kun[i], dict_kana.reading, dict_kanji.reading)
        /\ len(kun[i]) <= Len(dict_kana.reading)

\* gen_readings.rs:188-207: the loop over the groups; the index kana_r[0]
\* panics on a group that has a kanji row and no kana row
RECURSIVE collect_kuns(_, _, _)
collect_kuns(groups, literal, kun) ==
    IF groups = <<>> THEN [panic |-> FALSE, kuns |-> <<>>]
    ELSE LET kanji_r == SelectSeq(groups[1], LAMBDA r : r.kanji)
             kana_r == SelectSeq(groups[1], LAMBDA r : ~r.kanji)
         IN  IF kanji_r = <<>> THEN collect_kuns(Tail(groups), literal, kun)
             ELSE IF kana_r = <<>> THEN [panic |-> TRUE, kuns |-> <<>>]
             ELSE LET rest == collect_kuns(Tail(groups), literal, kun)
                      hit == any_kun_matches(literal, kun, kana_r[1], kanji_r[1])
                  IN  [panic |-> rest.panic,
                       kuns |-> IF hit THEN <<kanji_r[1]>> \o rest.kuns ELSE rest.kuns]

\* gen_readings.rs:152-156: sequences of the kanji rows starting with literal
literal_seq_ids(dict, literal) ==
    LET rows == SelectSeq(dict, LAMBDA r : r.kanji /\ starts_with(r.reading, literal))
    IN  [i \in 1..Len(rows) |-> rows[i].sequence]

\* gen_readings.rs:158-215 once both queries succeeded
find_kun_readings(dict, literal, kun, cache, tok) ==
    LET ids == literal_seq_ids(dict, literal)
        hits == SelectSeq(ids, LAMBDA i : i \in DOMAIN cache)
        cached == [i \in 1..Len(hits) |-> cache[hits[i]]]
        dicts == SelectSeq(dict,
                     LAMBDA r : InList(ids, r.sequence) /\ r.sequence \notin DOMAIN cache)
        found == collect_kuns(group_by(dicts \o cached), literal, kun)
        kept == clean_up(found.kuns, kun, tok)
    IN  [panic |-> found.panic,
         ids |-> [i \in 1..Len(kept) |-> kept[i].sequence],
         cache |-> insert_all(cache, dicts)]

\* models::kanji::find_readings_by_liteal(literal, reading, Onyomi, Exact, true):
\* sequences with a kanji row holding the literal and a kana row that reads on
find_readings_by_liteal(dict, literal, on) ==
    LET rows == SelectSeq(dict, LAMBDA r :
                    /\ ~r.kanji
                    /\ str_eq("Exact", r.reading, format_reading(on))
                    /\ \E j \in 1..Len(dict) :
                          /\ dict[j].sequence = r.sequence
                          /\ dict[j].kanji
                          /\ contains(dict[j].reading, literal))
    IN  [i \in 1..Len(rows) |-> rows[i].sequence]

RECURSIVE flatten(_)
flatten(lists) == IF lists = <<>> THEN <<>> ELSE lists[1] \o flatten(Tail(lists))

\* gen_readings.rs:117-130
find_ons(dict, literal, ons) ==
    flatten([i \in 1..Len(ons) |-> find_readings_by_liteal(dict, literal, ons[i])])

\* gen_readings.rs:136: the on links written
on_links(ons) == take(ons, 9)

\* ------------------------------------------------- load_word_kanji_info

\* kanji number i of the words
K(i) == 19968 + i

\* the kanji that have a record in the store
StoredKanji == { K(i) : i \in 1..(MaxWords + 1) } \cup {26085, 26412, 35486}

Word(k) == [reading |-> [kanji |-> k]]

Dict(reading) == [reading |-> reading]

\* word number i of a word list of one of four kinds
WordOf(kind, i) ==
    CASE kind = "single" -> Word(Dict(<<K(i)>>))
      [] kind = "pair" -> Word(Dict(<<K(i), K(i + 1)>>))
      [] kind = "mixed" -> IF i % 2 = 1 THEN Word(None)
                           ELSE Word(Dict(<<K(i), 12354, K(i)>>))
      [] OTHER -> Word(None)

WordLists ==
    { [i \in 1..n |-> WordOf(kind, i)] :
        n \in 0..MaxWords, kind \in {"single", "pair", "mixed", "kana"} }

\* the raw query strings: empty, three kanji, a repeated kanji, ASCII, and a
\* full-width digit, which is_kanji accepts and the store has no record of
Queries ==
    { <<>>, <<26085, 26412, 35486>>, <<26085, 12354, 26085, 26412>>, <<97>>,
      <<65296, 26085>> }

KanjiResult(c) == [literal |-> c]

\* models::kanji::find_by_literal
find_by_literal(c) ==
    IF c \in StoredKanji THEN Ok(KanjiResult(c)) ELSE Err("DbError(NotFound)")

\* Dict::load_kanji_info: the records of the kanji of the reading
load_kanji_info(d) ==
    LET lit == SelectSeq(d.reading, LAMBDA c : char_is_kanji(c) /\ c \in StoredKanji)
    IN  [i \in 1..Len(lit) |-> KanjiResult(lit[i])]

\* utils::remove_dups: the first occurrence of every item, in order
RECURSIVE remove_dups(_)
remove_dups(v) ==
    IF v = <<>> THEN <<>>
    ELSE LET init == remove_dups(SubSeq(v, 1, Len(v) - 1))
         IN  IF InList(init, v[Len(v)]) THEN init ELSE Append(init, v[Len(v)])

\* kanji.rs:155-168
get_kanji_words(ws) ==
    LET with_kanji == SelectSeq(ws, LAMBDA w : w.reading.kanji # None)
    IN  take([i \in 1..Len(with_kanji) |-> with_kanji[i].reading.kanji], 10)

\* kanji.rs:139-145
limit_M(kw, ws) == Len(ws)

limit(kw, ws) ==
    IF kw # <<>> /\ kanji_count(kw[1].reading) > Len(ws)
    THEN kanji_count(kw[1].reading)
    ELSE Len(ws)

\* try_join_all: the outcomes in order, or the first error
try_join_all(rets) ==
    IF \A i \in 1..Len(rets) : rets[i].ok
    THEN Ok([i \in 1..Len(rets) |-> rets[i].val])
    ELSE rets[CHOOSE i \in 1..Len(rets) :
                 ~rets[i].ok /\ \A j \in 1..(i - 1) : rets[j].ok]

\* kanji.rs:113 and 117-126: some word has a kanji reading
load_kanji_of_words ==
    /\ ipc = "Start"
    /\ get_kanji_words(words) # <<>>
    /\ kanji_words' = get_kanji_words(words)
    /\ LET kw == kanji_words'
           joined == try_join_all([i \in 1..Len(kw) |-> Ok(load_kanji_info(kw[i]))])
       IN  \E ret \in {joined, Err("DbError")} :
              IF ret.ok
              THEN /\ retrieved' = flatten(ret.val)
                   /\ ipc' = "Limit"
                   /\ UNCHANGED iresult
              ELSE /\ ipc' = "Done"
                   /\ iresult' = ret
                   /\ UNCHANGED retrieved
    /\ UNCHANGED <<words, query, svars, lvars, tvars, mvars>>

\* kanji.rs:113 and 127-133: no word has one, the kanji of the query are
\* looked up
scan_query ==
    /\ ipc = "Start"
    /\ get_kanji_words(words) = <<>>
    /\ kanji_words' = get_kanji_words(words)
    /\ LET chars == SelectSeq(query, char_is_kanji)
           joined == try_join_all([i \in 1..Len(chars) |-> find_by_literal(chars[i])])
       IN  \E ret \in {joined, Err("DbError")} :
              IF ret.ok
              THEN /\ retrieved' = ret.val
                   /\ ipc' = "Limit"
                   /\ UNCHANGED iresult
              ELSE /\ ipc' = "Done"
                   /\ iresult' = ret
                   /\ UNCHANGED retrieved
    /\ UNCHANGED <<words, query, svars, lvars, tvars, mvars>>

\* kanji.rs:137-151
limit_and_return ==
    /\ ipc = "Limit"
    /\ ipc' = "Done"
    /\ iresult' = Ok(take(remove_dups(retrieved), limit(kanji_words, words)))
    /\ UNCHANGED <<words, query, kanji_words, retrieved, svars, lvars, tvars, mvars>>

InitInfoIdle ==
    /\ ipc = "Idle"
    /\ words = <<>>
    /\ query = <<>>
    /\ kanji_words = <<>>
    /\ retrieved = <<>>
    /\ iresult = None

\* ---------------------------------------------- gen_readings: the tables

Cleared == [some |-> FALSE, ids |-> <<>>]

Some(ids) == [some |-> TRUE, ids |-> ids]

DictRow(sq, reading, isKanji, prio, jlpt) ==
    [sequence |-> sq, reading |-> reading, kanji |-> isKanji,
     priorities |-> prio, jlpt_lvl |-> jlpt]

KanjiRow(literal, kun, on, links) ==
    [literal |-> literal, kunyomi |-> kun, onyomi |-> on,
     kun_dicts |-> links, on_dicts |-> links]

\* entry i of the large table: written with "A", read "so"
BigEntry(i) ==
    << DictRow(i, CASE i % 3 = 0 -> <<"A">>
                    [] i % 3 = 1 -> <<"A", "b">>
                    [] OTHER -> <<"A", "b", "e">>,
               TRUE,
               IF i % 2 = 0 THEN <<"news1">> ELSE <<>>,
               IF i % 4 = 0 THEN <<>> ELSE <<(i % 4) + 1>>),
       DictRow(i, <<"s", "o">>, FALSE, <<>>, <<>>) >>

\* a table as the import leaves it: kanji rows before the kana row of each
\* entry; entry 50 is written with "A" or with "B"; links of an older rebuild
LargeTables ==
    [kanji |-> << KanjiRow("A", << <<"s", "o">>, <<"t", "a", ".", "b", "e">>, <<"-", "k", "o">> >>,
                           << <<"s", "o">> >>, Some(<<999>>)),
                  KanjiRow("B", << <<"s", "o">> >>,
                           << <<"s", "o">>, <<"k", "a">> >>, Some(<<999>>)),
                  KanjiRow("C", << <<"m", "i">> >>, <<>>, Some(<<999>>)) >>,
     dict |-> flatten([i \in 1..BigN |-> BigEntry(i)]) \o
              << DictRow(50, <<"A", "b">>, TRUE, <<>>, <<3>>),
                 DictRow(50, <<"B", "b">>, TRUE, <<>>, <<3>>),
                 DictRow(50, <<"s", "o">>, FALSE, <<>>, <<>>),
                 DictRow(60, <<"B", "z">>, TRUE, <<"ichi1">>, <<>>),
                 DictRow(60, <<"z", "u">>, FALSE, <<>>, <<>>),
                 DictRow(61, <<"t", "B">>, TRUE, <<>>, <<>>),
                 DictRow(61, <<"k", "a">>, FALSE, <<>>, <<>>),
                 DictRow(70, <<"A", "o">>, TRUE, <<"ichi1">>, <<1>>),
                 DictRow(70, <<"o", "t", "a", "b", "e">>, FALSE, <<>>, <<>>),
                 DictRow(71, <<"A", "k">>, TRUE, <<>>, <<>>),
                 DictRow(71, <<"k", "o", "x">>, FALSE, <<>>, <<>>) >>]

\* a table whose rows are not grouped: entry 1 has its kana row first, the
\* rows of entry 2 are split by entry 3
SmallTables ==
    [kanji |-> << KanjiRow("A", << <<"s", "o">> >>, << <<"s", "o">> >>, Cleared),
                  KanjiRow("B", << <<"s", "o">> >>, <<>>, Cleared),
                  KanjiRow("C", << <<"s", "o">> >>, << <<"s", "o">> >>, Cleared) >>,
     dict |-> << DictRow(1, <<"s", "o">>, FALSE, <<>>, <<>>),
                 DictRow(1, <<"A", "b">>, TRUE, <<>>, <<>>),
                 DictRow(1, <<"B", "b">>, TRUE, <<>>, <<>>),
                 DictRow(2, <<"C", "x">>, TRUE, <<>>, <<>>),
                 DictRow(2, <<"s", "o">>, FALSE, <<>>, <<>>),
                 DictRow(3, <<"C", "y">>, TRUE, <<>>, <<>>),
                 DictRow(3, <<"s", "o">>, FALSE, <<>>, <<>>),
                 DictRow(2, <<"C", "z">>, TRUE, <<>>, <<>>),
                 DictRow(2, <<"x", "s", "o">>, FALSE, <<>>, <<>>) >>]

Databases == {LargeTables, SmallTables}

KanjiIds == 1..3

\* the orders in which a select without ORDER BY can return the kanji rows
SelectOrders == { o \in [KanjiIds -> KanjiIds] : \A i, j \in KanjiIds : o[i] = o[j] => i = j }

\* the orders explored for a table of n kanji rows: every order of three
\* rows; of a larger table the storage order and its reverse
select_orders(n) ==
    IF n = Cardinality(KanjiIds) THEN SelectOrders
    ELSE { [i \in 1..n |-> i], [i \in 1..n |-> n + 1 - i] }

\* pending writes of a batch whose completion order is left open
MaxFree == 3

\* try_join_all: the futures one of which completes next; any pending one,
\* and of a batch with more than MaxFree pending writes the lowest position
next_done(p) ==
    IF Cardinality(p) <= MaxFree THEN p
    ELSE { CHOOSE i \in p : \A j \in p : i <= j }

\* ------------------------------------------ gen_readings: update_links

\* gen_readings.rs:62
KunChunk == 100

\* gen_readings.rs:88
OnChunk == 50

\* kanji beyond one full batch of kun link writes in the wide table
MaxOverflow == 2

\* a table with more kanji than one batch of kun link writes holds; the
\* literals "1", "2", ... stand for further kanji; every kanji has one entry
\* that exemplifies its kun reading, the first two have on readings
WideTables ==
    [kanji |-> [k \in 1..(KunChunk + MaxOverflow) |->
                   KanjiRow(ToString(k), << <<"s", "o">> >>,
                            IF k = 1 THEN << <<"s", "o">> >>
                            ELSE IF k = 2 THEN << <<"k", "a">> >>
                            ELSE <<>>,
                            Some(<<999>>))],
     dict |-> flatten([k \in 1..(KunChunk + MaxOverflow) |->
                          << DictRow(k, <<ToString(k), "b">>, TRUE, <<>>, <<>>),
                             DictRow(k, <<"s", "o">>, FALSE, <<>>, <<>>) >>])]

\* gen_readings.rs:38-43: the kanji that have kun readings, in select order
with_kuns(all) == SelectSeq(all, LAMBDA k : db.kanji[k].kunyomi # <<>>)

\* gen_readings.rs:82-87: the kanji that have on readings, in select order
with_ons(all) == SelectSeq(all, LAMBDA k : db.kanji[k].onyomi # <<>>)

\* slice::chunks(size): the positions of chunk c of a list of n items
chunk_items(n, size, c) == { i \in 1..n : (c - 1) * size < i /\ i <= c * size }

\* gen_readings.rs:78-107: the on reading chunks, or the end of the rebuild
enter_ons(all, c) ==
    IF chunk_items(Len(with_ons(all)), OnChunk, c) = {}
    THEN [lpc |-> "Done", chunk |-> 0, pending |-> {}]
    ELSE [lpc |-> "Ons", chunk |-> c,
          pending |-> chunk_items(Len(with_ons(all)), OnChunk, c)]

\* gen_readings.rs:61-76: the kun link chunks, then the on readings
enter_kun_insert_M(kuns, all, c) ==
    IF c > 1 \/ kuns = <<>> THEN enter_ons(all, 1)
    ELSE [lpc |-> "KunInsert", chunk |-> 1, pending |-> 1..Len(kuns)]

enter_kun_insert(kuns, all, c) ==
    IF chunk_items(Len(kuns), KunChunk, c) = {} THEN enter_ons(all, 1)
    ELSE [lpc |-> "KunInsert", chunk |-> c,
          pending |-> chunk_items(Len(kuns), KunChunk, c)]

\* gen_readings.rs:38-57: the next kanji with kun readings, or the inserts
enter_kuns(kuns, all, pos) ==
    IF pos < Len(with_kuns(all)) THEN [lpc |-> "Kuns", chunk |-> 0, pending |-> {}]
    ELSE enter_kun_insert(kuns, all, 1)

Goto(next) ==
    /\ lpc' = next.lpc
    /\ chunk' = next.chunk
    /\ pending' = next.pending
    /\ lresult' = IF next.lpc = "Done" THEN Ok("unit") ELSE lresult

\* a `?` on a failed storage call: update_links returns the error
Abort(step) ==
    /\ failures < MaxFailures
    /\ failures' = failures + 1
    /\ failedStep' = step
    /\ lpc' = "Done"
    /\ lresult' = Err("DbError")

\* a link write that reached the store; late: after a failure of this run
NoteWrite(k, kind, ids) ==
    written' = written \cup {[kanji |-> k, kind |-> kind, ids |-> ids, run |-> run,
                              late |-> failedStep # "none"]}

\* gen_readings.rs:323-325: what the update sets in one kanji row
clear_row_M(row) == [row EXCEPT !.kun_dicts = Cleared]

clear_row(row) == [row EXCEPT !.kun_dicts = Cleared, !.on_dicts = Cleared]

\* gen_readings.rs:28 and 319-330
clear_links ==
    /\ lpc = "Clear"
    /\ \/ /\ db' = [db EXCEPT !.kanji = [k \in DOMAIN db.kanji |-> clear_row(db.kanji[k])]]
          /\ lpc' = "Select"
          /\ UNCHANGED <<lresult, failures, failedStep>>
       \/ Abort("clear_links") /\ UNCHANGED db
    /\ UNCHANGED <<tokenizer, all_kanji, dict_cache, kpos, all_kuns, chunk, pending,
                   onFound, written, run, firstRun, svars, ivars, tvars, mvars>>

\* gen_readings.rs:30-36
select_all_kanji ==
    /\ lpc = "Select"
    /\ \/ \E order \in select_orders(Len(db.kanji)) :
             /\ all_kanji' = order
             /\ Goto(enter_kuns(<<>>, order, 0))
             /\ UNCHANGED <<failures, failedStep>>
       \/ Abort("select") /\ UNCHANGED <<all_kanji, chunk, pending>>
    /\ dict_cache' = <<>>
    /\ kpos' = 0
    /\ all_kuns' = <<>>
    /\ UNCHANGED <<tokenizer, db, onFound, written, run, firstRun, svars, ivars, tvars, mvars>>

\* gen_readings.rs:45-56: what the closure adds to all_kuns for one kanji
kun_entry(res, kanji_id) ==
    LET ids == IF res.ok THEN res.val ELSE <<>>
    IN  IF ids = <<>> THEN <<>> ELSE <<[kanji_id |-> kanji_id, dict_ids |-> ids]>>

\* gen_readings.rs:45-56 with find_kun_readings, gen_readings.rs:142-216
find_kuns ==
    /\ lpc = "Kuns"
    /\ LET k == with_kuns(all_kanji)[kpos + 1]
           row == db.kanji[k]
           r == find_kun_readings(db.dict, row.literal, row.kunyomi, dict_cache, tokenizer)
       IN  \/ /\ r.panic
              /\ lpc' = "Panicked"
              /\ UNCHANGED <<dict_cache, kpos, all_kuns, chunk, pending, lresult,
                             failures, failedStep>>
           \/ /\ ~r.panic
              /\ dict_cache' = r.cache
              /\ kpos' = kpos + 1
              /\ all_kuns' = all_kuns \o kun_entry(Ok(r.ids), k)
              /\ Goto(enter_kuns(all_kuns', all_kanji, kpos'))
              /\ UNCHANGED <<failures, failedStep>>
           \* db.get().unwrap() panics when no connection can be checked out
           \/ /\ failures < MaxFailures
              /\ failures' = failures + 1
              /\ failedStep' = "checkout"
              /\ lpc' = "Panicked"
              /\ UNCHANGED <<dict_cache, kpos, all_kuns, chunk, pending, lresult>>
           \* one of the two dict queries fails: unwrap_or_default() on the Err
           \/ \E q \in {"seq_ids", "dicts"} :
                 /\ failures < MaxFailures
                 /\ failures' = failures + 1
                 /\ failedStep' = "find_kun_readings"
                 /\ UNCHANGED dict_cache
                 /\ kpos' = kpos + 1
                 /\ all_kuns' = all_kuns \o kun_entry(Err("DbError"), k)
                 /\ Goto(enter_kuns(all_kuns', all_kanji, kpos'))
    /\ UNCHANGED <<tokenizer, db, all_kanji, onFound, written, run, firstRun, svars,
                   ivars, tvars, mvars>>

\* gen_readings.rs:70-75 with update_kun_link, gen_readings.rs:287-295
update_kun_link ==
    /\ lpc = "KunInsert"
    /\ \E i \in next_done(pending) :
         \/ /\ db' = [db EXCEPT !.kanji[all_kuns[i].kanji_id].kun_dicts =
                                     Some(all_kuns[i].dict_ids)]
            /\ NoteWrite(all_kuns[i].kanji_id, "kun", all_kuns[i].dict_ids)
            /\ IF pending = {i}
               THEN Goto(enter_kun_insert(all_kuns, all_kanji, chunk + 1))
               ELSE /\ pending' = pending \ {i}
                    /\ UNCHANGED <<lpc, chunk, lresult>>
            /\ UNCHANGED <<failures, failedStep>>
         \/ /\ Abort("update_kun_link")
            /\ UNCHANGED <<db, written, chunk, pending>>
    /\ UNCHANGED <<tokenizer, all_kanji, dict_cache, kpos, all_kuns, onFound, run,
                   firstRun, svars, ivars, tvars, mvars>>

\* the on reading future of item i has completed
OnDone(i) ==
    IF pending = {i}
    THEN Goto(enter_ons(all_kanji, chunk + 1))
    ELSE /\ pending' = pending \ {i}
         /\ UNCHANGED <<lpc, chunk, lresult>>

\* gen_readings.rs:94-101 with find_on_readings, gen_readings.rs:117-134
find_on_readings ==
    /\ lpc = "Ons"
    /\ \E i \in pending \ DOMAIN onFound :
         LET row == db.kanji[with_ons(all_kanji)[i]]
             ons == find_ons(db.dict, row.literal, row.onyomi)
         IN  \/ /\ ons = <<>>
                /\ OnDone(i)
                /\ UNCHANGED <<onFound, failures, failedStep>>
             \/ /\ ons # <<>>
                /\ onFound' = (i :> on_links(ons)) @@ onFound
                /\ UNCHANGED <<lpc, chunk, pending, lresult, failures, failedStep>>
             \/ /\ Abort("find_on_readings")
                /\ UNCHANGED <<onFound, chunk, pending>>
    /\ UNCHANGED <<tokenizer, db, all_kanji, dict_cache, kpos, all_kuns, written,
                   run, firstRun, svars, ivars, tvars, mvars>>

\* gen_readings.rs:136 with update_on_link, gen_readings.rs:277-285
update_on_link ==
    /\ lpc = "Ons"
    /\ \E i \in DOMAIN onFound :
         \/ /\ db' = [db EXCEPT !.kanji[with_ons(all_kanji)[i]].on_dicts = Some(onFound[i])]
            /\ NoteWrite(with_ons(all_kanji)[i], "on", onFound[i])
            /\ onFound' = [j \in DOMAIN onFound \ {i} |-> onFound[j]]
            /\ OnDone(i)
            /\ UNCHANGED <<failures, failedStep>>
         \/ /\ Abort("update_on_link")
            /\ UNCHANGED <<db, written, onFound, chunk, pending>>
    /\ UNCHANGED <<tokenizer, all_kanji, dict_cache, kpos, all_kuns, run, firstRun, svars,
                   ivars, tvars, mvars>>

Links == [k \in DOMAIN db.kanji |->
             [kun_dicts |-> db.kanji[k].kun_dicts, on_dicts |-> db.kanji[k].on_dicts]]

\* update_links is called again after it returned
next_run ==
    /\ lpc = "Done"
    /\ run < MaxRuns
    /\ run' = run + 1
    /\ firstRun' = IF run = 1 THEN [links |-> Links, result |-> lresult] ELSE firstRun
    /\ lpc' = "Clear"
    /\ lresult' = None
    /\ failedStep' = "none"
    /\ all_kanji' = <<>>
    /\ dict_cache' = <<>>
    /\ kpos' = 0
    /\ all_kuns' = <<>>
    /\ chunk' = 0
    /\ pending' = {}
    /\ onFound' = <<>>
    /\ UNCHANGED <<tokenizer, db, failures, written, svars, ivars, tvars, mvars>>

InitLocals ==
    /\ all_kanji = <<>>
    /\ dict_cache = <<>>
    /\ kpos = 0
    /\ all_kuns = <<>>
    /\ chunk = 0
    /\ pending = {}
    /\ onFound = <<>>
    /\ lresult = None
    /\ failures = 0
    /\ failedStep = "none"
    /\ written = {}
    /\ run = 1
    /\ firstRun = None

InitLinksIdle ==
    /\ lpc = "Idle"
    /\ tokenizer = FALSE
    /\ db = LargeTables
    /\ InitLocals

InitSearchIdle ==
    /\ pc = "Idle"
    /\ form = None
    /\ kanjiRow = None
    /\ posFilter = 0
    /\ seq_ids = <<>>
    /\ calls = <<>>
    /\ result = None

InitLinks ==
    /\ lpc = "Clear"
    /\ tokenizer \in BOOLEAN
    /\ db \in Databases
    /\ InitLocals
    /\ InitSearchIdle
    /\ InitInfoIdle
    /\ InitTextIdle
    /\ InitCallsIdle

NextLinks ==
    \/ clear_links
    \/ select_all_kanji
    \/ find_kuns
    \/ update_kun_link
    \/ find_on_readings
    \/ update_on_link
    \/ next_run

SpecLinks == InitLinks /\ [][NextLinks]_vars

\* one rebuild of the wide table by a build without the tokenizer, in which
\* the store fails at most once
InitBatches ==
    /\ lpc = "Clear"
    /\ tokenizer = FALSE
    /\ db = WideTables
    /\ all_kanji = <<>>
    /\ dict_cache = <<>>
    /\ kpos = 0
    /\ all_kuns = <<>>
    /\ chunk = 0
    /\ pending = {}
    /\ onFound = <<>>
    /\ lresult = None
    /\ failures = MaxFailures - 1
    /\ failedStep = "none"
    /\ written = {}
    /\ run = 1
    /\ firstRun = None
    /\ InitSearchIdle
    /\ InitInfoIdle
    /\ InitTextIdle
    /\ InitCallsIdle

NextBatches ==
    \/ clear_links
    \/ select_all_kanji
    \/ find_kuns
    \/ update_kun_link
    \/ find_on_readings
    \/ update_on_link

SpecBatches == InitBatches /\ [][NextBatches]_vars

InitSearch ==
    /\ pc = "Start"
    /\ form \in {None} \cup [literal : {"K"}, reading : QueryReadings]
    /\ kanjiRow \in {None} \cup KanjiRows
    /\ posFilter \in {0, 3}
    /\ seq_ids = <<>>
    /\ calls = <<>>
    /\ result = None
    /\ InitLinksIdle
    /\ InitInfoIdle
    /\ InitTextIdle
    /\ InitCallsIdle

NextSearch ==
    \/ Start
    \/ PrimaryLookup
    \/ NarrowSearch
    \/ WideSearch
    \/ LoadAndRank
    \/ alternative_reading_search

SpecSearch == InitSearch /\ [][NextSearch]_vars

InitInfo ==
    /\ ipc = "Start"
    /\ words \in WordLists
    /\ query \in Queries
    /\ kanji_words = <<>>
    /\ retrieved = <<>>
    /\ iresult = None
    /\ InitSearchIdle
    /\ InitLinksIdle
    /\ InitTextIdle
    /\ InitCallsIdle

NextInfo ==
    \/ load_kanji_of_words
    \/ scan_query
    \/ limit_and_return

SpecInfo == InitInfo /\ [][NextInfo]_vars

InitText ==
    /\ tpc = "Start"
    /\ inp \in StringsUpTo(MaxLen)
    /\ ct \in CharTypes
    /\ all_words = <<>>
    /\ curr = <<>>
    /\ iter = 0
    /\ flags = None
    /\ InitSearchIdle
    /\ InitLinksIdle
    /\ InitInfoIdle
    /\ InitCallsIdle

NextText ==
    \/ classify
    \/ push_char
    \/ end_word
    \/ all_words_return

SpecText == InitText /\ [][NextText]_vars

InitCalls ==
    /\ \/ m_in \in MatchInputs /\ o_in = None
       \/ m_in = None /\ o_in \in OrderInputs
    /\ m_out = None
    /\ o_out = None
    /\ InitSearchIdle
    /\ InitLinksIdle
    /\ InitInfoIdle
    /\ InitTextIdle

NextCalls ==
    \/ matches_kanji_call
    \/ order_kuns_call

SpecCalls == InitCalls /\ [][NextCalls]_vars

\* ------------------------------------------------- by_reading: the claims

IsNarrow(c) == c.fn = "find_readings" /\ c.args.first

IsWide(c) == c.fn = "find_readings" /\ c.args.mode = "Variable" /\ ~c.args.first

IsLoad(c) == c.fn = "load_words_by_seq"

IsAlt(c) == c.fn = "do_word_search"

\* positions in calls of the narrow lookup, the wide lookup, any lookup,
\* the word load and the kanji lookup
NarrowIdx == { i \in 1..Len(calls) : IsNarrow(calls[i]) }

WideIdx == { i \in 1..Len(calls) : IsWide(calls[i]) }

FindReadingsIdx == { i \in 1..Len(calls) : calls[i].fn = "find_readings" }

LoadIdx == { i \in 1..Len(calls) : IsLoad(calls[i]) }

AltIdx == { i \in 1..Len(calls) : IsAlt(calls[i]) }

LiteralIdx == { i \in 1..Len(calls) : calls[i].fn = "find_by_literal" }

\* C1: once the narrow lookup has returned, the wide lookup is issued (or is
\* the next step) exactly when the narrow lookup returned at most 2 ids; with
\* 3 or more ids no second lookup is issued and exactly those ids are loaded.
C1_WideIffNarrowAtMostTwo ==
    \A i \in NarrowIdx :
        calls[i].ret.ok =>
            LET ids == calls[i].ret.val
            IN  /\ Len(ids) <= 2 =>
                    /\ pc = "WideSearch" \/ WideIdx # {}
                    /\ \A j \in WideIdx : j = i + 1
                /\ Len(ids) >= 3 =>
                    /\ WideIdx = {}
                    /\ pc \in {"LoadAndRank", "Done"}
                    /\ pc = "Done" => LoadIdx = {i + 1}
                    /\ \A j \in LoadIdx : calls[j].args = ids

C1_Witness ==
    /\ pc = "Done"
    /\ \E i \in NarrowIdx :
         /\ calls[i].ret.ok
         /\ Len(calls[i].ret.val) = 2
         /\ IsWide(calls[i + 1])
    /\ LoadIdx # {}

\* C2: the result of the wide lookup replaces the narrow result: an empty
\* wide result sends the request to the alternative search, whose outcome is
\* what the request returns, and a non-empty one is what gets loaded.
C2_WideResultReplacesNarrow ==
    \A i \in WideIdx :
        calls[i].ret.ok =>
            IF calls[i].ret.val = <<>>
            THEN /\ pc \in {"AlternativeSearch", "Done"}
                 /\ LoadIdx = {}
                 /\ pc = "Done" =>
                      /\ Len(calls) = i + 1
                      /\ IsAlt(calls[i + 1])
                      /\ result = calls[i + 1].ret
                      /\ result # Err("DbError(NotFound)")
            ELSE /\ pc \in {"LoadAndRank", "Done"}
                 /\ AltIdx = {}
                 /\ \A j \in LoadIdx : calls[j].args = calls[i].ret.val

C2_Witness ==
    /\ pc = "Done"
    /\ \E i \in WideIdx :
         /\ calls[i].ret = Ok(<<>>)
         /\ calls[i - 1].ret.ok
         /\ Len(calls[i - 1].ret.val) \in {1, 2}
         /\ IsAlt(calls[i + 1])
         /\ result = calls[i + 1].ret

\* C3: when the kanji record does not declare the queried reading, the
\* request goes from the kanji lookup straight to the alternative search:
\* no find_readings lookup and no word load is ever issued.
C3_UndeclaredReadingGoesToAlternative ==
    \A i \in LiteralIdx :
        (/\ calls[i].ret.ok
         /\ \/ ~has_reading(calls[i].ret.val, form.reading)
            \/ get_reading_type(calls[i].ret.val, form.reading) = "none") =>
            /\ pc \in {"AlternativeSearch", "Done"}
            /\ FindReadingsIdx = {}
            /\ LoadIdx = {}
            /\ pc = "Done" => Len(calls) = 2 /\ IsAlt(calls[2])

C3_Witness ==
    /\ pc = "Done"
    /\ kanjiRow # None
    /\ form # None
    /\ ~has_reading(kanjiRow, form.reading)
    /\ Len(calls) = 2
    /\ IsAlt(calls[2])

\* C4: a "not found" from the kanji lookup is redirected to the alternative
\* search and is never what by_reading returns.
C4_NotFoundRedirected ==
    (/\ pc = "Done"
     /\ \E i \in LiteralIdx : calls[i].ret = Err("DbError(NotFound)")) =>
        /\ result # Err("DbError(NotFound)")
        /\ AltIdx # {}

\* C5: a request without a kanji reading form fails with Error::Undefined
\* before any storage call and without falling back.
C5_UndefinedBeforeStorage ==
    form = None =>
        /\ calls = <<>>
        /\ pc \in {"Start", "Done"}
        /\ pc = "Done" => result = Err("Undefined")

C5_Witness ==
    /\ form = None
    /\ pc = "Done"
    /\ result = Err("Undefined")

\* C6: on the load path the returned words are the first min(10, n) of the
\* n loaded records in ranked order, count is n, and the rest is default.
C6_TruncatedToTenWithFullCount ==
    (pc = "Done" /\ calls # <<>> /\ IsLoad(calls[Len(calls)]) /\ calls[Len(calls)].ret.ok) =>
        LET w == calls[Len(calls)].ret.val
            n == Len(w)
            kept == result.val.words
        IN  /\ result.ok
            /\ Len(kept) = Min(10, n)
            /\ Len(kept) <= 10
            /\ result.val.count = n
            /\ result.val.count >= Len(kept)
            /\ result.val.rest = "default"
            /\ Elems(kept) \subseteq Elems(w)
            /\ Cardinality(Elems(kept)) = Len(kept)
            /\ \A i, j \in 1..Len(kept) :
                   i < j => ~RanksBefore(kept[j], kept[i])
            /\ \A x \in Elems(w) \ Elems(kept) :
                   \A y \in Elems(kept) : ~RanksBefore(x, y)

C6_Witness ==
    /\ pc = "Done"
    /\ calls # <<>>
    /\ IsLoad(calls[Len(calls)])
    /\ calls[Len(calls)].ret.ok
    /\ Len(calls[Len(calls)].ret.val) > 10
    /\ result.ok
    /\ Len(result.val.words) = 10


\* ----------------------------------------------- update_links: the claims

DictRows == { db.dict[i] : i \in 1..Len(db.dict) }

\* C7: every kun link list written has at most 10 sequence ids and every on
\* link list written at most 9, and so has every link field of the store.
C7_LinkCaps ==
    /\ \A w \in written : Len(w.ids) <= (IF w.kind = "kun" THEN 10 ELSE 9)
    /\ \A k \in DOMAIN db.kanji :
          /\ Len(db.kanji[k].kun_dicts.ids) <= 10
          /\ Len(db.kanji[k].on_dicts.ids) <= 9

C7_Witness ==
    /\ lpc = "Done"
    /\ lresult = Ok("unit")
    /\ \E k \in DOMAIN db.kanji :
          /\ Len(literal_seq_ids(db.dict, db.kanji[k].literal)) > 10
          /\ Len(find_ons(db.dict, db.kanji[k].literal, db.kanji[k].onyomi)) > 9
          /\ db.kanji[k].kun_dicts = Some(db.kanji[k].kun_dicts.ids)
          /\ Len(db.kanji[k].kun_dicts.ids) = 10
          /\ Len(db.kanji[k].on_dicts.ids) = 9
          /\ [kanji |-> k, kind |-> "kun", ids |-> db.kanji[k].kun_dicts.ids,
              run |-> run, late |-> FALSE] \in written

\* C8: a second rebuild over the same kanji and dictionary rows leaves every
\* kanji with the link lists the first rebuild left.
C8_RebuildIdempotent ==
    (/\ run = 2
     /\ lpc = "Done"
     /\ failures = 0
     /\ lresult = Ok("unit")
     /\ firstRun.result = Ok("unit")) => Links = firstRun.links

\* entry sq has a kanji row holding the literal of kanji k and a kana row
\* that one of the kun readings of k matches
Exemplifies(k, sq) ==
    LET literal == db.kanji[k].literal
        kun == db.kanji[k].kunyomi
        entry == { r \in DictRows : r.sequence = sq }
    IN  /\ \E r \in entry : r.kanji /\ contains(r.reading, literal)
        /\ \E kana \in entry : \E r \in entry : \E i \in 1..Len(kun) :
              /\ ~kana.kanji
              /\ r.kanji
              /\ matches_kanji(literal, kun[i], kana.reading, r.reading)
              /\ len(kun[i]) <= Len(kana.reading)

C10_FailureAborts ==
    failedStep # "none" =>
        /\ \A w \in written : w.run = run => ~w.late
        /\ lpc = "Done" => lresult = Err("DbError")

\* --------------------------------------- load_word_kanji_info: the claims

\* positions of v that hold the first occurrence of their item
Firsts(v) == { i \in 1..Len(v) : \A j \in 1..(i - 1) : v[j] # v[i] }

\* r is the first n distinct items of v, in the order v has them
IsDistinctPrefix(r, v, n) ==
    /\ Len(r) = Min(n, Cardinality(Firsts(v)))
    /\ \A p \in 1..Len(r) :
          \E i \in Firsts(v) :
             /\ r[p] = v[i]
             /\ Cardinality({ j \in Firsts(v) : j < i }) = p - 1

\* the kanji characters of the query, as kanji infos
QueryKanjiInfos ==
    LET idx == { i \in 1..Len(query) : char_is_kanji(query[i]) }
        nth(p) == CHOOSE i \in idx : Cardinality({ j \in idx : j < i }) = p - 1
    IN  [p \in 1..Cardinality(idx) |-> KanjiResult(query[nth(p)])]

\* C11: called with an empty word list, load_word_kanji_info returns the
\* kanji info of each distinct kanji of the query in the order encountered;
\* for the query of the three kanji 26085, 26412, 35486 these three infos.
C11_EmptyWordsScanQuery ==
    (ipc = "Done" /\ words = <<>> /\ iresult.ok) =>
        /\ IsDistinctPrefix(iresult.val, QueryKanjiInfos, Len(query))
        /\ query = <<26085, 26412, 35486>> =>
              iresult.val = <<KanjiResult(26085), KanjiResult(26412), KanjiResult(35486)>>

\* the words that carry a kanji reading
KanjiBearing == SelectSeq(words, LAMBDA w : w.reading.kanji # None)

\* the kanji infos in retrieval order: those of the first 10 kanji-bearing
\* words, or of the query when no word bears kanji
RetrievalOrder ==
    IF KanjiBearing = <<>> THEN QueryKanjiInfos
    ELSE flatten([i \in 1..Min(10, Len(KanjiBearing)) |->
                     load_kanji_info(KanjiBearing[i].reading.kanji)])

\* max(k, w)
InfoCap ==
    LET w == Len(words)
        k == IF KanjiBearing = <<>> THEN 0
             ELSE kanji_count(KanjiBearing[1].reading.kanji.reading)
    IN  IF k > w THEN k ELSE w

Runs(s, t) ==
    { r \in (1..Len(s)) \X (1..Len(s)) :
        /\ r[1] <= r[2]
        /\ \A i \in r[1]..r[2] : char_get_text_type(s[i]) = t
        /\ r[1] = 1 \/ char_get_text_type(s[r[1] - 1]) # t
        /\ r[2] = Len(s) \/ char_get_text_type(s[r[2] + 1]) # t }

\* C13: all_words_with_ct returns, in left-to-right order, exactly the
\* maximal contiguous runs of characters whose get_text_type is ct: every
\* run is non-empty, no two runs are adjacent in the input, and the runs
\* concatenated are the characters of class ct of the input, in order.
C13_MaximalRuns ==
    tpc = "Done" =>
        /\ Len(all_words) = Cardinality(Runs(inp, ct))
        /\ \A n \in 1..Len(all_words) :
              /\ all_words[n] # <<>>
              /\ \E r \in Runs(inp, ct) :
                    /\ all_words[n] = SubSeq(inp, r[1], r[2])
                    /\ Cardinality({ q \in Runs(inp, ct) : q[1] < r[1] }) = n - 1
        /\ flatten(all_words) = SelectSeq(inp, LAMBDA c : char_get_text_type(c) = ct)

\* two runs of class Kanji, the second one a full-width roman letter
C13_Witness ==
    /\ tpc = "Done"
    /\ ct = "Kanji"
    /\ Len(inp) = 3
    /\ Len(all_words) = 2
    /\ all_words[2] = <<65313>>
    /\ ~char_is_kanji(65313)

\* C14: each string-level "is entirely X" predicate is true exactly when the
\* character-level predicate of the same name holds for every character of
\* the string (so it is true of the empty string), and each "has X"
\* predicate exactly when it holds for at least one character.
C14_StringPredicatesFold ==
    flags # None =>
        /\ flags.is_kana = \A i \in 1..Len(inp) : char_is_kana(inp[i])
        /\ flags.is_kanji = \A i \in 1..Len(inp) : char_is_kanji(inp[i])
        /\ flags.is_hiragana = \A i \in 1..Len(inp) : char_is_hiragana(inp[i])
        /\ flags.is_katakana = \A i \in 1..Len(inp) : char_is_katakana(inp[i])
        /\ flags.is_symbol = \A i \in 1..Len(inp) : char_is_symbol(inp[i])
        /\ flags.is_roman_letter = \A i \in 1..Len(inp) : char_is_roman_letter(inp[i])
        /\ flags.is_japanese = \A i \in 1..Len(inp) : char_is_japanese(inp[i])
        /\ flags.is_small_kana = \A i \in 1..Len(inp) : char_is_small_kana(inp[i])
        /\ flags.has_kana = \E i \in 1..Len(inp) : char_is_kana(inp[i])
        /\ flags.has_kanji = \E i \in 1..Len(inp) : char_is_kanji(inp[i])
        /\ flags.has_symbol = \E i \in 1..Len(inp) : char_is_symbol(inp[i])
        /\ flags.has_japanese = \E i \in 1..Len(inp) : char_is_japanese(inp[i])

\* ------------------------------------- update_links: cache, groups, clear

\* C15: within one run, the kun link list computed for a kanji is the same
\* whether the entries of its candidate sequence ids are fetched fresh or
\* taken from the cache filled while processing earlier kanji.
C15_CacheTransparent ==
    [][lpc = "Kuns" =>
         LET k == with_kuns(all_kanji)[kpos + 1]
             row == db.kanji[k]
             fresh == find_kun_readings(db.dict, row.literal, row.kunyomi, <<>>, tokenizer)
         IN  (kpos' = kpos + 1 /\ failedStep' = "none" /\ ~fresh.panic) =>
                all_kuns' = all_kuns \o kun_entry(Ok(fresh.ids), k)]_vars

\* C16: the list of sequence ids find_kun_readings returns never holds the
\* same sequence id twice.
C16_NoDuplicateSequence ==
    \A e \in 1..Len(all_kuns) :
        \A i, j \in 1..Len(all_kuns[e].dict_ids) :
            all_kuns[e].dict_ids[i] = all_kuns[e].dict_ids[j] => i = j

\* the link lists written for kanji k in the current run
WrittenNow(k, kind) ==
    { Some(w.ids) : w \in { x \in written : x.run = run /\ x.kanji = k /\ x.kind = kind } }

\* C17: the link fields of every kanji are cleared before any link list of
\* the run is written: from then on, and after a rebuild that returns Ok,
\* every link field is cleared or holds a list written in this run, and a
\* kanji with zero candidates ends cleared without failing the rebuild.
C17_NoStaleLinks ==
    /\ lpc = "Clear" => \A w \in written : w.run # run
    /\ (lpc # "Clear" /\ failedStep # "clear_links") =>
          \A k \in DOMAIN db.kanji :
             /\ db.kanji[k].kun_dicts \in {Cleared} \cup WrittenNow(k, "kun")
             /\ db.kanji[k].on_dicts \in {Cleared} \cup WrittenNow(k, "on")
    /\ (lpc = "Done" /\ lresult = Ok("unit")) =>
          \A k \in DOMAIN db.kanji :
             /\ literal_seq_ids(db.dict, db.kanji[k].literal) = <<>> =>
                   db.kanji[k].kun_dicts = Cleared
             /\ find_ons(db.dict, db.kanji[k].literal, db.kanji[k].onyomi) = <<>> =>
                   db.kanji[k].on_dicts = Cleared

\* the first rebuild of the table whose links all came from an older
\* rebuild returned Ok: the kanji without candidates is cleared, another
\* one holds a list of this run
C17_Witness ==
    /\ lpc = "Done"
    /\ lresult = Ok("unit")
    /\ run = 1
    /\ \A k \in DOMAIN db.kanji : LargeTables.kanji[k].kun_dicts = Some(<<999>>)
    /\ db.dict = LargeTables.dict
    /\ \E k \in DOMAIN db.kanji :
          /\ literal_seq_ids(db.dict, db.kanji[k].literal) = <<>>
          /\ db.kanji[k].kun_dicts = Cleared
          /\ db.kanji[k].on_dicts = Cleared
    /\ \E k \in DOMAIN db.kanji :
          /\ db.kanji[k].kun_dicts # Cleared
          /\ db.kanji[k].kun_dicts \in WrittenNow(k, "kun")

\* ----------------------------------- matches_kanji, order_kuns: the claims

\* C18: matches_kanji matches a reading beginning with '-' with
\* LeftVariable, a reading ending with '-' or whose entry's kanji form
\* starts with the literal with RightVariable, every other one with Exact.
C18_ModeSelectionRule ==
    m_out # None =>
        m_out.mode =
            IF starts_with(m_in.kun, "-") THEN "LeftVariable"
            ELSE IF ends_with(m_in.kun, "-") \/ starts_with(m_in.kanji_reading, m_in.literal)
              THEN "RightVariable"
            ELSE "Exact"

\* the candidate's reading is one of the declared kun readings
Declared(x) == InList(clean_kuns_of(o_in.kun), x.reading)

\* criterion (a) of order_kuns does not decide
DeclaredUndecided ==
    \/ ~Declared(o_in.a) /\ ~Declared(o_in.b)
    \/ /\ Declared(o_in.a)
       /\ Declared(o_in.b)
       /\ get_item_order(clean_kuns_of(o_in.kun), o_in.a.reading, o_in.b.reading) = "none"

\* the criteria before the proficiency level do not decide
EarlierUndecided ==
    /\ DeclaredUndecided
    /\ ~o_in.tok \/ by_tokens(o_in.a, o_in.b) = "none"
    /\ (o_in.a.priorities = <<>>) = (o_in.b.priorities = <<>>)

\* a candidate with a known level ranks before one with none
KnownLevelFirst ==
    /\ (o_in.a.jlpt_lvl # <<>> /\ o_in.b.jlpt_lvl = <<>>) => o_out.order = "Less"
    /\ (o_in.a.jlpt_lvl = <<>> /\ o_in.b.jlpt_lvl # <<>>) => o_out.order = "Greater"

BothLevelsKnown == o_in.a.jlpt_lvl # <<>> /\ o_in.b.jlpt_lvl # <<>>

\* C19: when the earlier criteria do not decide, a candidate with a known
\* proficiency level ranks before one with none, and of two candidates with
\* a known level the one with the lower level value ranks first.
C19_LowerLevelFirst ==
    (o_out # None /\ EarlierUndecided) =>
        /\ KnownLevelFirst
        /\ BothLevelsKnown =>
              /\ o_in.a.jlpt_lvl[1] < o_in.b.jlpt_lvl[1] => o_out.order = "Less"
              /\ o_in.a.jlpt_lvl[1] > o_in.b.jlpt_lvl[1] => o_out.order = "Greater"

\* C19 as amended: when the earlier criteria do not decide, a candidate with
\* a known proficiency level ranks before one with none, and of two
\* candidates with a known level the one with the higher level value ranks
\* first; equal levels do not separate them.
C19_HigherLevelFirst ==
    (o_out # None /\ EarlierUndecided) =>
        /\ KnownLevelFirst
        /\ BothLevelsKnown =>
              /\ o_in.a.jlpt_lvl[1] > o_in.b.jlpt_lvl[1] => o_out.order = "Less"
              /\ o_in.a.jlpt_lvl[1] < o_in.b.jlpt_lvl[1] => o_out.order = "Greater"
              /\ o_in.a.jlpt_lvl[1] = o_in.b.jlpt_lvl[1] => o_out.order = "Equal"

C19_Witness ==
    /\ o_out # None
    /\ EarlierUndecided
    /\ ~o_in.tok
    /\ o_in.a.jlpt_lvl = <<2>>
    /\ o_in.b.jlpt_lvl = <<5>>
    /\ o_out.order = "Greater"

\* the number of morphemes the reading of x tokenizes to, as a class
TokenArity(x) ==
    IF parse_len(x.reading) = 0 THEN "zero"
    ELSE IF parse_len(x.reading) = 1 THEN "single"
    ELSE "multi"

\* a ranks before b by token arity
ArityBefore(a, b) ==
    \/ TokenArity(a) = "single" /\ TokenArity(b) = "multi"
    \/ TokenArity(a) = "multi" /\ TokenArity(b) = "zero"

\* C20: with the tokenizer and criterion (a) undecided, a single-token
\* candidate ranks before a multi-token one and a multi-token one before a
\* zero-token one; two candidates of the same token arity are not separated
\* by this criterion.
C20_TokenArityOrder ==
    (o_out # None /\ o_in.tok /\ DeclaredUndecided) =>
        /\ ArityBefore(o_in.a, o_in.b) => o_out.order = "Less"
        /\ ArityBefore(o_in.b, o_in.a) => o_out.order = "Greater"
        /\ TokenArity(o_in.a) = TokenArity(o_in.b) =>
              o_out.order = by_prio_and_jlpt(o_in.a, o_in.b)

\* a and b both have a declared reading and the reading of a comes earlier
\* in the kanji's list of kun readings
DeclaredEarlier(a, b) ==
    /\ Declared(a)
    /\ Declared(b)
    /\ IndexOf(clean_kuns_of(o_in.kun), a.reading) < IndexOf(clean_kuns_of(o_in.kun), b.reading)

\* C21: a candidate whose reading equals a declared kun reading of the kanji
\* (stripped of '-' and of the part after '.') ranks before every candidate
\* whose reading equals none, whatever their priority markers, proficiency
\* levels and token counts; of two candidates with declared readings the one
\* whose reading comes earlier in the list of kun readings ranks first.
C21_DeclaredReadingFirst ==
    o_out # None =>
        /\ (Declared(o_in.a) /\ ~Declared(o_in.b)) => o_out.order = "Less"
        /\ (~Declared(o_in.a) /\ Declared(o_in.b)) => o_out.order = "Greater"
        /\ DeclaredEarlier(o_in.a, o_in.b) => o_out.order = "Less"
        /\ DeclaredEarlier(o_in.b, o_in.a) => o_out.order = "Greater"

\* an undeclared single-token candidate with a priority marker and a level
\* against a declared one with neither: the declared one ranks first
C21_Witness ==
    /\ o_out # None
    /\ o_in.tok
    /\ ~Declared(o_in.a)
    /\ Declared(o_in.b)
    /\ parse_len(o_in.a.reading) = 1
    /\ o_in.a.priorities # <<>>
    /\ o_in.a.jlpt_lvl = <<5>>
    /\ o_in.b.priorities = <<>>
    /\ o_in.b.jlpt_lvl = <<>>
    /\ o_out.order = "Greater"

\* ------------------------------------------ update_links: the batches

\* the batch of position i of all_kuns
BatchOf(i) == (i - 1) \div KunChunk + 1

\* the kun link writes issued and not completed
InFlight(at, p) == IF at = "KunInsert" THEN p ELSE {}

\* the write of position i of kuns has reached the store d
Completed(d, kuns, i) == d.kanji[kuns[i].kanji_id].kun_dicts = Some(kuns[i].dict_ids)

\* the step issues the writes of a batch
BatchIssued == InFlight(lpc', pending') \ InFlight(lpc, pending) # {}

\* the step completes the write of position i
Lands(i) == i \in InFlight(lpc, pending) /\ i \notin InFlight(lpc', pending') /\ db' # db

\* the step completes the last write of a batch
BatchCompleted ==
    /\ \E i \in pending : Lands(i)
    /\ InFlight(lpc', pending') \cap InFlight(lpc, pending) = {}

\* C22: the kun link writes are issued in batches of at most 100; when the
\* writes of a batch are issued every write of the batches before it has
\* reached the store; the writes of a batch go to pairwise distinct kanji,
\* a write changes the links of its own kanji only, and in whatever order
\* the writes of a batch complete, after the last one every kanji of the
\* batch holds the links of its own write.
C22_BatchedKunWrites ==
    [][ /\ BatchIssued =>
              /\ Cardinality(pending') <= 100
              /\ \A i \in pending' : \A j \in 1..Len(all_kuns') :
                    /\ BatchOf(j) < BatchOf(i) => Completed(db', all_kuns', j)
                    /\ j \in pending' => BatchOf(j) = BatchOf(i)
                    /\ (j \in pending' /\ j # i) =>
                          all_kuns'[j].kanji_id # all_kuns'[i].kanji_id
        /\ \A i \in pending : Lands(i) =>
              \A k \in DOMAIN db.kanji :
                 k # all_kuns[i].kanji_id => db'.kanji[k] = db.kanji[k]
        /\ BatchCompleted =>
              \A i \in pending : \A j \in 1..Len(all_kuns) :
                 BatchOf(j) = BatchOf(i) => Completed(db', all_kuns, j)
      ]_vars

\* the second batch is in flight and its later write has completed before
\* its earlier one
C22_Witness ==
    /\ lpc = "KunInsert"
    /\ failedStep = "none"
    /\ Len(all_kuns) = KunChunk + 2
    /\ pending = {KunChunk + 1}
    /\ BatchOf(KunChunk + 1) = 2
    /\ Completed(db, all_kuns, KunChunk + 2)

\* ------------------------------------- find_kun_readings: the kana row

\* C23: find_kun_readings never takes the first kana-form row of a group
\* that has none, with and without sequence ids served from the cache: the
\* rebuild stops by a panic only when no connection could be checked out.
C23_KanaRowPresent == lpc = "Panicked" => failedStep = "checkout"

\* ----------------------------------------- order_kuns: the swapped call

\* the reverse of an ordering
Reversed(order) ==
    IF order = "Less" THEN "Greater" ELSE IF order = "Greater" THEN "Less" ELSE "Equal"

\* C24: order_kuns(a, b) is the reverse of order_kuns(b, a) for all
\* candidates a and b, with and without the tokenizer.
C24_ReverseOnSwap ==
    o_out # None =>
        o_out.order = Reversed(order_kuns(o_in.b, o_in.a, clean_kuns_of(o_in.kun), o_in.tok))

====
